---------------------------- MODULE Spec2Model ----------------------------
(***************************************************************************)
(* Model of the Andersen EV schedule application: the SQLite record store  *)
(* (DatabaseService), the thin ScheduleService wrapper, the schedule form  *)
(* (ScheduleForm.handleSubmit) and the screen handler that connects them.  *)
(*                                                                         *)
(* JavaScript values are tagged records, so that undefined, null, strings, *)
(* numbers and booleans stay distinct and `x || null`, `value !==          *)
(* undefined` and the SQL parameter binding can be modelled as the code    *)
(* computes them.  Strings are sequences of characters (tokens).           *)
(***************************************************************************)
EXTENDS Integers, Sequences, FiniteSets, TLC

VARIABLES
    store,          \* the SQLite database file: both tables and their AUTOINCREMENT counters
    isInitialized,  \* DatabaseService.isInitialized
    now,            \* the wall clock read by new Date()
    result,         \* outcome of the last store call: how its promise settled
    calls,          \* createSchedule calls that were issued and whose promise nobody consumed yet
    user,           \* AuthContext: the current user (a users row) or null
    savedUserId,    \* AsyncStorage item 'user_id'
    isLoading,      \* AuthContext: isLoading
    tasks,          \* async calls of AuthContext and DatabaseService that are under way
    returned,       \* what the last login or register call returned
    showForm,       \* ScheduleScreen: the modal with the form is open
    editingSchedule,\* ScheduleScreen: the schedule being edited or null
    formData,       \* ScheduleForm: the entered fields
    submits,        \* number of form submissions handed to handleFormSubmit so far
    alert           \* the message of the Alert dialog on screen, "none" when there is none

storeVars == <<store, isInitialized, now, result>>
authVars == <<user, savedUserId, isLoading, tasks, returned>>
formVars == <<showForm, editingSchedule, formData, submits, alert>>
vars == <<store, isInitialized, now, result, calls, user, savedUserId, isLoading, tasks,
          returned, showForm,
          editingSchedule, formData, submits, alert>>

-----------------------------------------------------------------------------
(* Bounds of the model *)

\* highest schedule id the general store specification inserts
MaxScheduleId == 3
\* highest schedule id the quota specifications insert
MaxQuotaId == 11
\* highest user id the specifications insert
MaxUserId == 2
\* createSchedule calls in flight at a time
MaxInFlight == 2
\* form submissions that reach handleFormSubmit
MaxSubmits == 2
\* highest user id the account specification inserts
MaxAccounts == 3
\* highest schedule id the listing specification inserts
MaxListedId == 5
\* latest instant the clock of the listing specification reaches
MaxClock == 2

(* Program constants *)

\* the per-user schedule limit of createSchedule
ScheduleLimit == 10
\* the list length at which handleAddSchedule refuses to open the form
AddScheduleLimit == 10

-----------------------------------------------------------------------------
(* JavaScript values *)

Undefined == [t |-> "undefined"]
Null == [t |-> "null"]
Str(s) == [t |-> "string", s |-> s]
Num(n) == [t |-> "number", n |-> n]
Bool(b) == [t |-> "boolean", b |-> b]
\* the text produced by JSON.stringify for an array of strings
Json(a) == [t |-> "string", json |-> a]
\* the text produced by Date.toISOString: ordered as the instants are
IsoDate(ms) == [t |-> "string", iso |-> ms]

\* the number NaN
NaN == [t |-> "NaN"]

\* JavaScript truthiness (the left operand test of `||` and of `? :`)
Truthy(v) ==
    CASE v.t = "undefined" -> FALSE
      [] v.t = "null" -> FALSE
      [] v.t = "number" -> v.n # 0
      [] v.t = "boolean" -> v.b
      [] v.t = "string" -> IF "s" \in DOMAIN v THEN v.s # <<>> ELSE TRUE
      [] v.t = "NaN" -> FALSE

\* `x || null`
OrNull(v) == IF Truthy(v) THEN v ELSE Null

\* `x ? 1 : 0`
OneOrZero(v) == IF Truthy(v) THEN Num(1) ELSE Num(0)

\* a value as bound to a `?` of executeSql: SQLite has neither undefined nor booleans
SqlBind(v) ==
    CASE v.t = "undefined" -> Null
      [] v.t = "boolean" -> IF v.b THEN Num(1) ELSE Num(0)
      [] OTHER -> v

-----------------------------------------------------------------------------
(* The schema *)

ScheduleKeys ==
    {"id", "userId", "type", "name", "days", "startTime", "endTime", "readyByTime",
     "desiredChargeLevel", "desiredMileage", "isActive", "createdAt"}

\* every column of schedules but the primary key
ScheduleColumns == ScheduleKeys \ {"id"}

ScheduleTypes == {Str(<<"time">>), Str(<<"charge">>), Str(<<"mileage">>)}

\* NOT NULL and CHECK constraints of the schedules table
ScheduleRowOk(r) ==
    /\ r.userId # Null
    /\ r.type # Null
    /\ r.type \in ScheduleTypes
    /\ r.name # Null
    /\ r.days # Null
    /\ r.isActive # Null
    /\ r.createdAt # Null

\* seeded fault: only email is UNIQUE
UserRowOkEmailOnly(st, u) ==
    /\ u.username # Null /\ u.email # Null /\ u.password # Null
    /\ \A o \in st.users : o.email # u.email

\* seeded fault: only username is UNIQUE
UserRowOkUsernameOnly(st, u) ==
    /\ u.username # Null /\ u.email # Null /\ u.password # Null
    /\ \A o \in st.users : o.username # u.username

\* NOT NULL and UNIQUE constraints of the users table, for a row to be added
UserRowOk(st, u) ==
    /\ u.username # Null /\ u.email # Null /\ u.password # Null
    /\ \A o \in st.users : o.username # u.username /\ o.email # u.email

\* an object with the given properties; every other Schedule key is undefined
Payload(p) == [k \in ScheduleKeys |-> IF k \in DOMAIN p THEN p[k] ELSE Undefined]

EmptyStore == [users |-> {}, schedules |-> {}, userSeq |-> 0, scheduleSeq |-> 0]

\* how a call settled: the store it leaves, resolved or rejected, whether it opened a
\* transaction, and the rows its INSERT, UPDATE or DELETE statement affected
Settled(st, status, error, tx, rows) ==
    [store |-> st, status |-> status, error |-> error, tx |-> tx, rowsAffected |-> rows]

-----------------------------------------------------------------------------
(* DatabaseService: each operator is one db.transaction, run to completion *)

DemoName == Str(<<"d", "e", "m", "o">>)
DemoEmail == Str(<<"demo@andersenev.com">>)
DemoPassword == Str(<<"demo123">>)

DemoSchedule1(id, userId, t) ==
    [id |-> Num(id), userId |-> Num(userId), type |-> Str(<<"time">>),
     name |-> Str(<<"Morning", " ", "Charge">>),
     days |-> Json(<<"Mon", "Tue", "Wed", "Thu", "Fri">>),
     startTime |-> Str(<<"06:00">>), endTime |-> Str(<<"08:00">>),
     readyByTime |-> Null, desiredChargeLevel |-> Null, desiredMileage |-> Null,
     isActive |-> Num(1), createdAt |-> IsoDate(t)]

DemoSchedule2(id, userId, t) ==
    [id |-> Num(id), userId |-> Num(userId), type |-> Str(<<"charge">>),
     name |-> Str(<<"Weekend", " ", "Full", " ", "Charge">>),
     days |-> Json(<<"Sat", "Sun">>),
     startTime |-> Null, endTime |-> Null,
     readyByTime |-> Str(<<"09:00">>), desiredChargeLevel |-> Num(100),
     desiredMileage |-> Null,
     isActive |-> Num(1), createdAt |-> IsoDate(t)]

\* seeded fault: the demo rows are inserted without the SELECT that looks for the demo
\* user, into a table without UNIQUE columns
InsertDemoDataUnchecked(st, t) ==
    LET uid == st.userSeq + 1
        demo == [id |-> uid, username |-> DemoName, email |-> DemoEmail,
                 password |-> DemoPassword, createdAt |-> IsoDate(t)]
        sid == st.scheduleSeq + 1
    IN  [users |-> st.users \cup {demo},
         schedules |-> st.schedules
                         \cup {DemoSchedule1(sid, uid, t), DemoSchedule2(sid + 1, uid, t)},
         userSeq |-> uid,
         scheduleSeq |-> sid + 1]

InsertDemoData(st, t) ==
    IF \E u \in st.users : u.username = DemoName
    THEN st
    ELSE LET uid == st.userSeq + 1
             demo == [id |-> uid, username |-> DemoName, email |-> DemoEmail,
                      password |-> DemoPassword, createdAt |-> IsoDate(t)]
             sid == st.scheduleSeq + 1
         IN  IF ~UserRowOk(st, demo)
             THEN st
             ELSE [users |-> st.users \cup {demo},
                   schedules |-> st.schedules
                                   \cup {DemoSchedule1(sid, uid, t), DemoSchedule2(sid + 1, uid, t)},
                   userSeq |-> uid,
                   scheduleSeq |-> sid + 1]

\* initialize(): CREATE TABLE IF NOT EXISTS keeps the rows; then the demo data
InitializeStore(st, initialized, t) ==
    IF initialized THEN st ELSE InsertDemoData(st, t)

\* seeded fault: INSERT OR REPLACE, the rows in conflict give way to the new one
CreateUserTxReplace(st, username, email, password, t) ==
    LET uid == st.userSeq + 1
        row == [id |-> uid, username |-> SqlBind(username), email |-> SqlBind(email),
                password |-> SqlBind(password), createdAt |-> IsoDate(t)]
        kept == {o \in st.users : o.username # row.username /\ o.email # row.email}
    IN  Settled([st EXCEPT !.users = kept \cup {row}, !.userSeq = uid],
                "resolved", "none", TRUE, 1)

CreateUserTx(st, username, email, password, t) ==
    LET uid == st.userSeq + 1
        row == [id |-> uid, username |-> SqlBind(username), email |-> SqlBind(email),
                password |-> SqlBind(password), createdAt |-> IsoDate(t)]
    IN  IF UserRowOk(st, row)
        THEN Settled([st EXCEPT !.users = @ \cup {row}, !.userSeq = uid],
                     "resolved", "none", TRUE, 1)
        ELSE Settled(st, "rejected", "ConstraintViolation", TRUE, 0)

GetUserByUsername(st, username) ==
    IF \E u \in st.users : u.username = username
    THEN CHOOSE u \in st.users : u.username = username
    ELSE Null

GetUserById(st, id) ==
    IF \E u \in st.users : u.id = id
    THEN CHOOSE u \in st.users : u.id = id
    ELSE Null

\* SELECT COUNT(*) FROM schedules WHERE userId = ?
ScheduleCount(st, userId) ==
    Cardinality({r \in st.schedules : r.userId = SqlBind(userId)})

\* seeded fault: the limit test lets the count reach the limit plus one
LimitReachedAbove(count) == count > ScheduleLimit

\* the limit test of createSchedule
LimitReached(count) == count >= ScheduleLimit

\* the VALUES list of the INSERT of createSchedule
InsertedRow(id, data, t) ==
    [id |-> Num(id),
     userId |-> SqlBind(data.userId),
     type |-> SqlBind(data.type),
     name |-> SqlBind(data.name),
     days |-> SqlBind(data.days),
     startTime |-> SqlBind(OrNull(data.startTime)),
     endTime |-> SqlBind(OrNull(data.endTime)),
     readyByTime |-> SqlBind(OrNull(data.readyByTime)),
     desiredChargeLevel |-> SqlBind(OrNull(data.desiredChargeLevel)),
     desiredMileage |-> SqlBind(OrNull(data.desiredMileage)),
     isActive |-> SqlBind(OneOrZero(data.isActive)),
     createdAt |-> IsoDate(t)]

\* seeded fault: the row is inserted before the limit is tested, and stays when the call rejects
CreateScheduleTxInsertFirst(st, data, t) ==
    LET row == InsertedRow(st.scheduleSeq + 1, data, t)
        added == [st EXCEPT !.schedules = @ \cup {row}, !.scheduleSeq = row.id.n]
    IN  IF ~ScheduleRowOk(row)
        THEN Settled(st, "rejected", "ConstraintViolation", TRUE, 0)
        ELSE IF ScheduleCount(added, data.userId) > ScheduleLimit
             THEN Settled(added, "rejected", "QuotaExceeded", TRUE, 1)
             ELSE Settled(added, "resolved", "none", TRUE, 1)

CreateScheduleTx(st, data, t) ==
    IF LimitReached(ScheduleCount(st, data.userId))
    THEN Settled(st, "rejected", "QuotaExceeded", TRUE, 0)
    ELSE LET row == InsertedRow(st.scheduleSeq + 1, data, t)
         IN  IF ScheduleRowOk(row)
             THEN Settled([st EXCEPT !.schedules = @ \cup {row}, !.scheduleSeq = row.id.n],
                          "resolved", "none", TRUE, 1)
             ELSE Settled(st, "rejected", "ConstraintViolation", TRUE, 0)

\* seeded fault: undefined values are not skipped
UpdateSetAnyValue(updatedFields) == {k \in DOMAIN updatedFields : k # "id"}

\* seeded fault: id is not skipped
UpdateSetWithId(updatedFields) ==
    {k \in DOMAIN updatedFields : updatedFields[k] # Undefined}

\* the keys of the SET clause built by updateSchedule
UpdateSet(updatedFields) ==
    {k \in DOMAIN updatedFields : k # "id" /\ updatedFields[k] # Undefined}

\* one row after UPDATE schedules SET <fields> WHERE id = ?
UpdatedRow(r, updatedFields) ==
    [k \in DOMAIN r |->
        IF k \in UpdateSet(updatedFields) THEN SqlBind(updatedFields[k]) ELSE r[k]]

\* seeded fault: an UPDATE that matches no row rejects
UpdateScheduleTxNotFound(st, id, updatedFields) ==
    IF UpdateSet(updatedFields) = {}
    THEN Settled(st, "resolved", "none", FALSE, 0)
    ELSE IF ~\E r \in st.schedules : r.id = Num(id)
         THEN Settled(st, "rejected", "NotFound", TRUE, 0)
         ELSE LET rows == {IF r.id = Num(id) THEN UpdatedRow(r, updatedFields) ELSE r :
                              r \in st.schedules}
              IN  IF \A r \in rows : ScheduleRowOk(r)
                  THEN Settled([st EXCEPT !.schedules = rows], "resolved", "none", TRUE, 1)
                  ELSE Settled(st, "rejected", "ConstraintViolation", TRUE, 0)

UpdateScheduleTx(st, id, updatedFields) ==
    IF UpdateSet(updatedFields) = {}
    THEN Settled(st, "resolved", "none", FALSE, 0)
    ELSE LET rows == {IF r.id = Num(id) THEN UpdatedRow(r, updatedFields) ELSE r :
                         r \in st.schedules}
             hit == Cardinality({r \in st.schedules : r.id = Num(id)})
         IN  IF \A r \in rows : ScheduleRowOk(r)
             THEN Settled([st EXCEPT !.schedules = rows], "resolved", "none", TRUE, hit)
             ELSE Settled(st, "rejected", "ConstraintViolation", TRUE, 0)

\* seeded fault: a DELETE that matches no row rejects
DeleteScheduleTxStrict(st, id) ==
    IF \E r \in st.schedules : r.id = Num(id)
    THEN Settled([st EXCEPT !.schedules = {r \in @ : r.id # Num(id)}], "resolved", "none",
                 TRUE, 1)
    ELSE Settled(st, "rejected", "NotFound", TRUE, 0)

\* DELETE FROM schedules WHERE id = ?
DeleteScheduleTx(st, id) ==
    Settled([st EXCEPT !.schedules = {r \in @ : r.id # Num(id)}], "resolved", "none", TRUE,
            Cardinality({r \in st.schedules : r.id = Num(id)}))

\* ORDER BY createdAt DESC: r is listed no later than o (rows of one instant in rowid order)
ListedBefore(r, o) ==
    \/ r.createdAt.iso > o.createdAt.iso
    \/ r.createdAt.iso = o.createdAt.iso /\ r.id.n <= o.id.n

RECURSIVE OrderByCreatedAtDesc(_)
OrderByCreatedAtDesc(rows) ==
    IF rows = {} THEN <<>>
    ELSE LET first == CHOOSE r \in rows : \A o \in rows : ListedBefore(r, o)
         IN  <<first>> \o OrderByCreatedAtDesc(rows \ {first})

\* SELECT * FROM schedules WHERE userId = ? ORDER BY createdAt DESC
GetSchedulesByUserId(st, userId) ==
    OrderByCreatedAtDesc({r \in st.schedules : r.userId = SqlBind(userId)})

-----------------------------------------------------------------------------
(* The state machine *)

\* useState of ScheduleForm
InitialFormData ==
    [name |-> <<>>, type |-> Str(<<"time">>), days |-> <<>>, startTime |-> <<>>,
     endTime |-> <<>>, readyByTime |-> <<>>, desiredChargeLevel |-> <<>>,
     desiredMileage |-> <<>>]

Init ==
    /\ store = EmptyStore
    /\ isInitialized = FALSE
    /\ now = 0
    /\ calls = {}
    /\ user = Null
    /\ savedUserId = Null
    /\ isLoading = TRUE
    /\ tasks = {}
    /\ returned = [op |-> "none", value |-> FALSE]
    /\ showForm = FALSE
    /\ editingSchedule = Null
    /\ formData = InitialFormData
    /\ submits = 0
    /\ alert = "none"
    /\ result = [op |-> "none", status |-> "none", error |-> "none", tx |-> FALSE,
                 rowsAffected |-> 0]

\* the store once `await this.initialize()` has returned
Opened == InitializeStore(store, isInitialized, now)

Settle(op, r) ==
    /\ store' = r.store
    /\ isInitialized' = TRUE
    /\ result' = [op |-> op, status |-> r.status, error |-> r.error, tx |-> r.tx,
                  rowsAffected |-> r.rowsAffected]
    /\ UNCHANGED now

Initialize ==
    /\ Settle("initialize", Settled(Opened, "resolved", "none", ~isInitialized, 0))
    /\ UNCHANGED <<calls, authVars, formVars>>

CreateUser(username, email, password) ==
    /\ Settle("createUser", CreateUserTx(Opened, username, email, password, now))
    /\ UNCHANGED <<calls, authVars, formVars>>

CreateSchedule(scheduleData) ==
    /\ Settle("createSchedule", CreateScheduleTx(Opened, scheduleData, now))
    /\ UNCHANGED <<calls, authVars, formVars>>

UpdateSchedule(id, updatedFields) ==
    /\ Settle("updateSchedule", UpdateScheduleTx(Opened, id, updatedFields))
    /\ UNCHANGED <<calls, authVars, formVars>>

DeleteSchedule(id) ==
    /\ Settle("deleteSchedule", DeleteScheduleTx(Opened, id))
    /\ UNCHANGED <<calls, authVars, formVars>>

(* createSchedule as its caller sees it when calls overlap: the call returns a pending  *)
(* promise once its transaction is queued; the database runs the queued transactions  *)
(* one at a time, each to completion; the caller's continuation consumes the outcome. *)
(* `owned` remembers how many schedules the user had when the call was issued.        *)

Pending(c) == c.status = "pending"

IssueCreateSchedule(k, scheduleData) ==
    /\ \A c \in calls : c.k # k
    /\ calls' = calls \cup {[k |-> k, data |-> scheduleData, status |-> "pending",
                             owned |-> ScheduleCount(Opened, scheduleData.userId)]}
    /\ store' = Opened
    /\ isInitialized' = TRUE
    /\ UNCHANGED <<now, result, authVars, formVars>>

RunTransaction(c) ==
    /\ Pending(c)
    /\ LET r == CreateScheduleTx(Opened, c.data, now)
       IN  /\ Settle("createSchedule", r)
           /\ calls' = (calls \ {c}) \cup {[c EXCEPT !.status = r.status]}
    /\ UNCHANGED <<authVars, formVars>>

ConsumeOutcome(c) ==
    /\ ~Pending(c)
    /\ calls' = calls \ {c}
    /\ UNCHANGED <<storeVars, authVars, formVars>>
-----------------------------------------------------------------------------
(* Inputs of the store specification *)

NameNight == Str(<<"N", "i", "g", "h", "t">>)
NameTrip == Str(<<"T", "r", "i", "p">>)
DaysMonWed == Json(<<"Mon", "Wed">>)

TimePayload(userId) ==
    Payload([userId |-> Num(userId), type |-> Str(<<"time">>), name |-> NameNight,
             days |-> DaysMonWed, startTime |-> Str(<<"22:00">>),
             endTime |-> Str(<<"23:00">>), isActive |-> Bool(TRUE)])

ChargePayload(userId, level) ==
    Payload([userId |-> Num(userId), type |-> Str(<<"charge">>), name |-> NameNight,
             days |-> DaysMonWed, readyByTime |-> Str(<<"07:00">>),
             desiredChargeLevel |-> Num(level), isActive |-> Bool(TRUE)])

MileagePayload(userId, mileage) ==
    Payload([userId |-> Num(userId), type |-> Str(<<"mileage">>), name |-> NameTrip,
             days |-> DaysMonWed, readyByTime |-> Str(<<"07:00">>),
             desiredMileage |-> Num(mileage), isActive |-> Bool(TRUE)])

\* a charge payload that also carries the fields of the other types
MixedPayload(userId) ==
    [ChargePayload(userId, 80) EXCEPT !.startTime = Str(<<"22:00">>),
                                      !.endTime = Str(<<"23:00">>),
                                      !.desiredMileage = Num(120)]

\* a payload without a name
NamelessPayload(userId) == [TimePayload(userId) EXCEPT !.name = Undefined]

\* the payloads a validated form can submit, boundary values included
ValidPayloads ==
    {TimePayload(1), ChargePayload(1, 80), ChargePayload(1, 0),
     MileagePayload(1, 120), MileagePayload(1, 0)}

CreateInputs == ValidPayloads \cup {MixedPayload(1), NamelessPayload(1)}

UpdateInputs ==
    {Payload([desiredChargeLevel |-> Num(50)]),
     Payload(<<>>),
     Payload([id |-> Num(2)]),
     Payload([id |-> Num(2), desiredChargeLevel |-> Num(50), isActive |-> Bool(TRUE)]),
     Payload([name |-> Null])}

ScheduleIds == 1..(MaxScheduleId + 1)

Next ==
    \/ Initialize
    \/ \E d \in CreateInputs : Opened.scheduleSeq < MaxScheduleId /\ CreateSchedule(d)
    \/ \E id \in ScheduleIds, f \in UpdateInputs : UpdateSchedule(id, f)
    \/ \E id \in ScheduleIds : DeleteSchedule(id)

Spec == Init /\ [][Next]_vars
-----------------------------------------------------------------------------
(* Vocabulary of the properties *)

TypeFields == {"startTime", "endTime", "readyByTime", "desiredChargeLevel", "desiredMileage"}

\* the fields that belong to a schedule type
ApplicableFields(type) ==
    CASE type = Str(<<"time">>) -> {"startTime", "endTime"}
      [] type = Str(<<"charge">>) -> {"readyByTime", "desiredChargeLevel"}
      [] type = Str(<<"mileage">>) -> {"readyByTime", "desiredMileage"}
      [] OTHER -> {}

\* the row with the given id, in a table that holds one
RowOf(st, id) == CHOOSE r \in st.schedules : r.id = Num(id)

HasRow(st, id) == \E r \in st.schedules : r.id = Num(id)

\* schedules whose userId is u
Owned(st, u) == Cardinality({r \in st.schedules : r.userId = Num(u)})

\* the payload names a field other than id with a defined value
HasDefinedField(f) == \E k \in ScheduleColumns : f[k] # Undefined

\* what updateSchedule(id, f) is to make of row old
ExpectedRow(old, f) ==
    [k \in DOMAIN old |->
        IF k # "id" /\ f[k] # Undefined THEN SqlBind(f[k]) ELSE old[k]]

-----------------------------------------------------------------------------
(* Properties of the store calls, checked under Spec *)

\* C4: every payload a validated form can submit (desiredChargeLevel = 0 and
\* desiredMileage = 0 included) reads back, after a successful createSchedule, from
\* getSchedulesByUserId of its owner with each field of its type equal to the submitted
\* value and each field of the other types null.
C4_RoundTrip ==
    [][\A d \in ValidPayloads :
          (result'.op = "createSchedule" /\ result'.status = "resolved" /\ CreateSchedule(d))
          => LET list == GetSchedulesByUserId(store', d.userId)
             IN  \E i \in DOMAIN list :
                    /\ list[i].id = Num(store'.scheduleSeq)
                    /\ list[i].name = d.name /\ list[i].days = d.days
                    /\ \A k \in TypeFields :
                          list[i][k] = IF k \in ApplicableFields(d.type) THEN d[k] ELSE Null]_vars

\* C6: createSchedule stores null in every field that does not belong to data.type,
\* whatever the payload carries for it.
C6_InapplicableStoredNull ==
    [][\A d \in CreateInputs :
          (result'.op = "createSchedule" /\ result'.status = "resolved" /\ CreateSchedule(d))
          => \A k \in TypeFields \ ApplicableFields(d.type) :
                RowOf(store', store'.scheduleSeq)[k] = Null]_vars

\* C7: updateSchedule(id, f) on an existing schedule gives every field of f that is
\* defined (other than id) the submitted value and leaves every omitted field, every
\* other schedule and every user as they were; a payload the table's constraints refuse
\* changes nothing at all.
C7_UpdateFrame ==
    [][\A id \in ScheduleIds, f \in UpdateInputs :
          (result'.op = "updateSchedule" /\ HasRow(Opened, id) /\ UpdateSchedule(id, f))
          => LET old == RowOf(Opened, id)
                 want == ExpectedRow(old, f)
             IN  /\ store'.users = Opened.users
                 /\ \A r \in Opened.schedules : r.id # Num(id) => r \in store'.schedules
                 /\ Cardinality(store'.schedules) = Cardinality(Opened.schedules)
                 /\ IF ScheduleRowOk(want)
                    THEN result'.status = "resolved" /\ want \in store'.schedules
                    ELSE result'.status = "rejected" /\ old \in store'.schedules]_vars

C7_Witness ==
    /\ result.op = "updateSchedule" /\ result.status = "resolved" /\ result.rowsAffected = 1
    /\ \E r \in store.schedules :
          /\ r.type = Str(<<"charge">>) /\ r.desiredChargeLevel = Num(50)
          /\ r.name = DemoSchedule2(2, 1, 0).name /\ r.days = DemoSchedule2(2, 1, 0).days

C9_EmptyUpdateAndIdKept ==
    [][\A id \in ScheduleIds, f \in UpdateInputs :
          (result'.op = "updateSchedule" /\ UpdateSchedule(id, f))
          => /\ ~HasDefinedField(f)
                  => /\ result'.status = "resolved" /\ ~result'.tx
                     /\ store' = Opened
             /\ {r.id : r \in store'.schedules} = {r.id : r \in Opened.schedules}
             /\ Cardinality(store'.schedules) = Cardinality(Opened.schedules)
             /\ \A r \in Opened.schedules : r.id # Num(id) => r \in store'.schedules]_vars

C9_Witness ==
    /\ result.op = "updateSchedule" /\ ~result.tx /\ result.status = "resolved"
    /\ store.schedules # {}

\* C10: deleteSchedule(id) resolves and removes the row with that id and nothing else;
\* for an id that no row has it changes nothing, and a second deleteSchedule(id) leaves
\* the store as the first one left it.
C10_DeleteIdempotent ==
    [][\A id \in ScheduleIds :
          (result'.op = "deleteSchedule" /\ DeleteSchedule(id))
          => /\ result'.status = "resolved"
             /\ store'.users = Opened.users
             /\ store'.schedules = {r \in Opened.schedules : r.id # Num(id)}
             /\ ~HasRow(Opened, id) => store' = Opened
             /\ LET again == DeleteScheduleTx(store', id)
                IN  again.status = "resolved" /\ again.store = store']_vars

C10_Witness ==
    /\ result.op = "deleteSchedule" /\ result.status = "resolved" /\ result.rowsAffected = 0
    /\ store.schedules # {}
-----------------------------------------------------------------------------
(* ScheduleForm and ScheduleScreen *)

Digits == <<"0", "1", "2", "3", "4", "5", "6", "7", "8", "9">>

IsDigit(c) == \E i \in 1..10 : Digits[i] = c

DigitValue(c) == (CHOOSE i \in 1..10 : Digits[i] = c) - 1

IsSpace(c) == c = " "

\* Number.prototype.toString of a non-negative integer
RECURSIVE NumberToString(_)
NumberToString(n) ==
    IF n < 10 THEN <<Digits[n + 1]>> ELSE NumberToString(n \div 10) \o <<Digits[(n % 10) + 1]>>

RECURSIVE TrimStart(_)
TrimStart(s) == IF s # <<>> /\ IsSpace(Head(s)) THEN TrimStart(Tail(s)) ELSE s

RECURSIVE TrimEnd(_)
TrimEnd(s) ==
    IF s # <<>> /\ IsSpace(s[Len(s)]) THEN TrimEnd(SubSeq(s, 1, Len(s) - 1)) ELSE s

\* String.prototype.trim
Trim(s) == TrimEnd(TrimStart(s))

\* the value of the longest prefix of digits of s, read after the digits acc
RECURSIVE DigitsPrefix(_, _)
DigitsPrefix(s, acc) ==
    IF s # <<>> /\ IsDigit(Head(s))
    THEN DigitsPrefix(Tail(s), acc * 10 + DigitValue(Head(s)))
    ELSE acc

\* parseInt(text): leading white space, an optional sign, then digits up to the first
\* character that is none; NaN when no digit is there
ParseInt(text) ==
    LET s == TrimStart(text)
        signed == s # <<>> /\ Head(s) \in {"-", "+"}
        body == IF signed THEN Tail(s) ELSE s
    IN  IF body = <<>> \/ ~IsDigit(Head(body)) THEN NaN
        ELSE IF signed /\ Head(s) = "-" THEN Num(0 - DigitsPrefix(body, 0))
        ELSE Num(DigitsPrefix(body, 0))

IsTime(fd) == fd.type = Str(<<"time">>)
IsCharge(fd) == fd.type = Str(<<"charge">>)
IsMileage(fd) == fd.type = Str(<<"mileage">>)

\* seeded fault: the bounds themselves are refused
OutOfRangeExclusive(n, max) == n = NaN \/ n.n <= 0 \/ n.n >= max

\* isNaN(n) || n < 0 || n > max
OutOfRange(n, max) == n = NaN \/ n.n < 0 \/ n.n > max

\* seeded fault: the days are not checked
ValidationErrorNoDays(fd) ==
    IF Trim(fd.name) = <<>> THEN "Please enter a schedule name"
    ELSE IF IsTime(fd) /\ (fd.startTime = <<>> \/ fd.endTime = <<>>)
         THEN "Please enter both start and end times"
    ELSE IF ~IsTime(fd) /\ fd.readyByTime = <<>> THEN "Please enter a ready by time"
    ELSE IF IsCharge(fd) /\ OutOfRange(ParseInt(fd.desiredChargeLevel), 100)
         THEN "Charge level must be between 0 and 100"
    ELSE IF IsMileage(fd) /\ OutOfRange(ParseInt(fd.desiredMileage), 250)
         THEN "Mileage must be between 0 and 250"
    ELSE "none"

\* seeded fault: the days are checked before the name
ValidationErrorDaysFirst(fd) ==
    IF Len(fd.days) = 0 THEN "Please select at least one day"
    ELSE IF Trim(fd.name) = <<>> THEN "Please enter a schedule name"
    ELSE IF IsTime(fd) /\ (fd.startTime = <<>> \/ fd.endTime = <<>>)
         THEN "Please enter both start and end times"
    ELSE IF ~IsTime(fd) /\ fd.readyByTime = <<>> THEN "Please enter a ready by time"
    ELSE IF IsCharge(fd) /\ OutOfRange(ParseInt(fd.desiredChargeLevel), 100)
         THEN "Charge level must be between 0 and 100"
    ELSE IF IsMileage(fd) /\ OutOfRange(ParseInt(fd.desiredMileage), 250)
         THEN "Mileage must be between 0 and 250"
    ELSE "none"

\* seeded fault: readyByTime is required of every type, startTime alone of type time
ValidationErrorReadyByAlways(fd) ==
    IF Trim(fd.name) = <<>> THEN "Please enter a schedule name"
    ELSE IF Len(fd.days) = 0 THEN "Please select at least one day"
    ELSE IF IsTime(fd) /\ fd.startTime = <<>>
         THEN "Please enter both start and end times"
    ELSE IF fd.readyByTime = <<>> THEN "Please enter a ready by time"
    ELSE IF IsCharge(fd) /\ OutOfRange(ParseInt(fd.desiredChargeLevel), 100)
         THEN "Charge level must be between 0 and 100"
    ELSE IF IsMileage(fd) /\ OutOfRange(ParseInt(fd.desiredMileage), 250)
         THEN "Mileage must be between 0 and 250"
    ELSE "none"

\* the checks of handleSubmit, in their order: the alert shown, or "none"
ValidationError(fd) ==
    IF Trim(fd.name) = <<>> THEN "Please enter a schedule name"
    ELSE IF Len(fd.days) = 0 THEN "Please select at least one day"
    ELSE IF IsTime(fd) /\ (fd.startTime = <<>> \/ fd.endTime = <<>>)
         THEN "Please enter both start and end times"
    ELSE IF ~IsTime(fd) /\ fd.readyByTime = <<>> THEN "Please enter a ready by time"
    ELSE IF IsCharge(fd) /\ OutOfRange(ParseInt(fd.desiredChargeLevel), 100)
         THEN "Charge level must be between 0 and 100"
    ELSE IF IsMileage(fd) /\ OutOfRange(ParseInt(fd.desiredMileage), 250)
         THEN "Mileage must be between 0 and 250"
    ELSE "none"

\* seeded fault: the name as entered, and every field whatever the type
ScheduleDataAsEntered(fd) ==
    Payload([name |-> Str(fd.name),
             type |-> fd.type,
             days |-> Json(fd.days),
             startTime |-> Str(fd.startTime),
             endTime |-> Str(fd.endTime),
             readyByTime |-> Str(fd.readyByTime),
             desiredChargeLevel |-> ParseInt(fd.desiredChargeLevel),
             desiredMileage |-> ParseInt(fd.desiredMileage),
             isActive |-> Bool(TRUE)])

\* the object handleSubmit passes to onSubmit
ScheduleData(fd) ==
    Payload([name |-> Str(Trim(fd.name)),
             type |-> fd.type,
             days |-> Json(fd.days),
             startTime |-> IF IsTime(fd) THEN Str(fd.startTime) ELSE Undefined,
             endTime |-> IF IsTime(fd) THEN Str(fd.endTime) ELSE Undefined,
             readyByTime |-> IF ~IsTime(fd) THEN Str(fd.readyByTime) ELSE Undefined,
             desiredChargeLevel |->
                 IF IsCharge(fd) THEN ParseInt(fd.desiredChargeLevel) ELSE Undefined,
             desiredMileage |->
                 IF IsMileage(fd) THEN ParseInt(fd.desiredMileage) ELSE Undefined,
             isActive |-> Bool(TRUE)])

\* `text || ''`
TextOrEmpty(v) == IF Truthy(v) THEN v.s ELSE <<>>

\* `n?.toString() || ''`
NumberOrEmpty(v) == IF v.t = "number" THEN NumberToString(v.n) ELSE <<>>

\* the useEffect of ScheduleForm that loads the schedule being edited
FormDataOf(schedule) ==
    [name |-> schedule.name.s,
     type |-> schedule.type,
     days |-> schedule.days.json,
     startTime |-> TextOrEmpty(schedule.startTime),
     endTime |-> TextOrEmpty(schedule.endTime),
     readyByTime |-> TextOrEmpty(schedule.readyByTime),
     desiredChargeLevel |-> NumberOrEmpty(schedule.desiredChargeLevel),
     desiredMileage |-> NumberOrEmpty(schedule.desiredMileage)]

\* seeded fault: a day that is switched on goes to the front of the list
ToggledDaysPrepend(days, day) ==
    IF \E i \in DOMAIN days : days[i] = day
    THEN SelectSeq(days, LAMBDA d : d # day)
    ELSE <<day>> \o days

\* handleDayToggle
ToggledDays(days, day) ==
    IF \E i \in DOMAIN days : days[i] = day
    THEN SelectSeq(days, LAMBDA d : d # day)
    ELSE Append(days, day)

\* the list ScheduleScreen shows: loadSchedules runs after login and after every write
ScreenSchedules ==
    IF user = Null THEN <<>> ELSE GetSchedulesByUserId(store, Num(user.id))

\* seeded fault: the password is not compared
LoginAnyPassword(username, password) ==
    /\ ~showForm
    /\ LET foundUser == GetUserByUsername(Opened, username)
       IN  IF foundUser # Null
           THEN /\ user' = foundUser
                /\ savedUserId' = Str(NumberToString(foundUser.id))
                /\ returned' = [op |-> "login", value |-> TRUE]
           ELSE /\ returned' = [op |-> "login", value |-> FALSE]
                /\ UNCHANGED <<user, savedUserId>>
    /\ store' = Opened
    /\ isInitialized' = TRUE
    /\ UNCHANGED <<now, result, calls, isLoading, tasks, formVars>>

\* AuthContext.login
Login(username, password) ==
    /\ ~showForm
    /\ LET foundUser == GetUserByUsername(Opened, username)
       IN  IF foundUser # Null /\ foundUser.password = password
           THEN /\ user' = foundUser
                /\ savedUserId' = Str(NumberToString(foundUser.id))
                /\ returned' = [op |-> "login", value |-> TRUE]
           ELSE /\ returned' = [op |-> "login", value |-> FALSE]
                /\ UNCHANGED <<user, savedUserId>>
    /\ UNCHANGED <<isLoading, tasks>>
    /\ store' = Opened
    /\ isInitialized' = TRUE
    /\ UNCHANGED <<now, result, calls, formVars>>

HandleAddSchedule ==
    /\ user # Null /\ ~showForm /\ submits < MaxSubmits
    /\ Len(ScreenSchedules) < AddScheduleLimit
    /\ editingSchedule' = Null
    /\ showForm' = TRUE
    /\ formData' = InitialFormData
    /\ alert' = "none"
    /\ UNCHANGED <<storeVars, calls, authVars, submits>>

HandleEditSchedule(schedule) ==
    /\ user # Null /\ ~showForm /\ submits < MaxSubmits
    /\ editingSchedule' = schedule
    /\ showForm' = TRUE
    /\ formData' = FormDataOf(schedule)
    /\ alert' = "none"
    /\ UNCHANGED <<storeVars, calls, authVars, submits>>

\* onChangeText and onPress of the inputs: setFormData(prev => ({...prev, field: text}));
\* an Alert is modal, so the user has dismissed it before touching anything else
SetFormField(field, text) ==
    /\ showForm
    /\ field \in {"startTime", "endTime"} => IsTime(formData)
    /\ field = "readyByTime" => ~IsTime(formData)
    /\ field = "desiredChargeLevel" => IsCharge(formData)
    /\ field = "desiredMileage" => IsMileage(formData)
    /\ formData' = [formData EXCEPT ![field] = text]
    /\ alert' = "none"
    /\ UNCHANGED <<storeVars, calls, authVars, showForm, editingSchedule, submits>>

HandleDayToggle(day) ==
    /\ showForm
    /\ formData' = [formData EXCEPT !.days = ToggledDays(@, day)]
    /\ alert' = "none"
    /\ UNCHANGED <<storeVars, calls, authVars, showForm, editingSchedule, submits>>

OnCancel ==
    /\ showForm
    /\ showForm' = FALSE
    /\ editingSchedule' = Null
    /\ formData' = InitialFormData
    /\ alert' = "none"
    /\ UNCHANGED <<storeVars, calls, authVars, submits>>

\* handleFormSubmit: the store call and, when it resolves, the closing of the form
HandleFormSubmit(scheduleData) ==
    /\ user # Null
    /\ LET r == IF editingSchedule # Null
                THEN UpdateScheduleTx(Opened, editingSchedule.id.n, scheduleData)
                ELSE CreateScheduleTx(Opened, [scheduleData EXCEPT !.userId = Num(user.id)], now)
       IN  /\ Settle(IF editingSchedule # Null THEN "updateSchedule" ELSE "createSchedule", r)
           /\ IF r.status = "resolved"
              THEN /\ showForm' = FALSE
                   /\ editingSchedule' = Null
                   /\ formData' = InitialFormData
                   /\ alert' = "none"
              ELSE /\ alert' = "Failed to save schedule"
                   /\ UNCHANGED <<showForm, editingSchedule, formData>>
    /\ submits' = submits + 1
    /\ UNCHANGED <<calls, authVars>>

\* seeded fault: onSubmit is called whatever the checks say
HandleSubmitUnchecked ==
    /\ showForm /\ submits < MaxSubmits
    /\ HandleFormSubmit(ScheduleData(formData))

\* handleSubmit: a failed check shows its alert and returns
HandleSubmit ==
    /\ showForm /\ submits < MaxSubmits
    /\ IF ValidationError(formData) = "none"
       THEN HandleFormSubmit(ScheduleData(formData))
       ELSE /\ alert' = ValidationError(formData)
            /\ UNCHANGED <<storeVars, calls, authVars, showForm, editingSchedule, formData,
                           submits>>

(* Inputs of the form specification *)

FormTexts ==
    [name |-> {<<"N">>},
     startTime |-> {<<"22:00">>},
     endTime |-> {<<"23:00">>},
     readyByTime |-> {<<"07:00">>},
     desiredChargeLevel |-> {<<"0">>, <<"8", "0">>},
     desiredMileage |-> {<<"1", "2", "0">>}]

FormDays == {"Monday"}

NextForm ==
    \/ Login(DemoName, DemoPassword)
    \/ HandleAddSchedule
    \/ \E i \in DOMAIN ScreenSchedules : HandleEditSchedule(ScreenSchedules[i])
    \/ \E field \in DOMAIN FormTexts : \E text \in FormTexts[field] : SetFormField(field, text)
    \/ \E type \in ScheduleTypes : SetFormField("type", type)
    \/ \E day \in FormDays : HandleDayToggle(day)
    \/ OnCancel
    \/ HandleSubmit

SpecForm == Init /\ [][NextForm]_vars

\* C5: every stored schedule has exactly the fields of its type populated, whatever
\* validated submissions created or edited it.
C5_TypeShape ==
    \A r \in store.schedules :
        \A k \in TypeFields : (k \in ApplicableFields(r.type)) <=> (r[k] # Null)

-----------------------------------------------------------------------------
(* The quota specification: one payload per user until a user is at the limit, and *)
(* every payload of the store specification once the user is there                *)

UserAmy == [username |-> Str(<<"a", "m", "y">>), email |-> Str(<<"amy@example.com">>),
            password |-> Str(<<"pw">>)]

UserIds == 1..MaxUserId

QuotaCreateInputs == {TimePayload(1), ChargePayload(2, 80)}

QuotaUpdateInputs == {Payload([userId |-> Num(u)]) : u \in UserIds}

\* the ids the quota specification updates and deletes: a seeded row and the last one
QuotaTargetIds == {1, MaxQuotaId}

NextQuota ==
    \/ Opened.userSeq < MaxUserId
          /\ CreateUser(UserAmy.username, UserAmy.email, UserAmy.password)
    \/ \E d \in QuotaCreateInputs : Opened.scheduleSeq < MaxQuotaId /\ CreateSchedule(d)
    \/ \E d \in CreateInputs :
          /\ Opened.scheduleSeq < MaxQuotaId
          /\ ScheduleCount(Opened, d.userId) >= ScheduleLimit
          /\ CreateSchedule(d)
    \/ \E id \in QuotaTargetIds, f \in QuotaUpdateInputs : UpdateSchedule(id, f)
    \/ \E id \in QuotaTargetIds : DeleteSchedule(id)

SpecQuota == Init /\ [][NextQuota]_vars


\* C1: createSchedule for a user who owns 10 schedules is rejected with the quota
\* error, whatever the payload, and both tables are afterwards what they were.
C1_QuotaRejects ==
    [][\A d \in QuotaCreateInputs \cup CreateInputs :
          (result'.op = "createSchedule"
              /\ (\E u \in UserIds : d.userId = Num(u) /\ Owned(Opened, u) = 10)
              /\ CreateSchedule(d))
          => /\ result'.status = "rejected" /\ result'.error = "QuotaExceeded"
             /\ store' = Opened /\ store' = store]_vars

C1_Witness ==
    /\ result.op = "createSchedule" /\ result.error = "QuotaExceeded"
    /\ Owned(store, 1) = 10

\* C2: in every state reached by createSchedule, updateSchedule (userId in the payload
\* included) and deleteSchedule calls, every user owns at most 10 schedules.
C2_AtMostTen == \A u \in UserIds : Owned(store, u) <= 10

-----------------------------------------------------------------------------
(* Overlapping createSchedule calls of one user *)

ConcurrentInputs == {TimePayload(1)}

NextConcurrent ==
    \/ \E k \in 1..MaxInFlight, d \in ConcurrentInputs :
          /\ Opened.scheduleSeq + Cardinality({c \in calls : Pending(c)}) < MaxQuotaId
          /\ IssueCreateSchedule(k, d)
    \/ \E c \in calls : RunTransaction(c)
    \/ \E c \in calls : ConsumeOutcome(c)

SpecConcurrent == Init /\ [][NextConcurrent]_vars

\* the calls for user u that were issued while u owned 9 schedules
IssuedAtNine(u) == {c \in calls : c.data.userId = Num(u) /\ c.owned = 9}

\* C3: however createSchedule calls issued for a user who owns 9 schedules interleave,
\* at most one of them succeeds, the user never owns 11 schedules, and once all of them
\* have settled the user owns exactly 10.
C3_AtomicQuota ==
    \A u \in UserIds :
        /\ Owned(store, u) <= 10
        /\ Cardinality({c \in IssuedAtNine(u) : c.status = "resolved"}) <= 1
        /\ (IssuedAtNine(u) # {} /\ \A c \in IssuedAtNine(u) : ~Pending(c))
              => Owned(store, u) = 10

C3_Witness ==
    /\ Cardinality(IssuedAtNine(1)) >= 2
    /\ \E c \in IssuedAtNine(1) : c.status = "resolved"
    /\ \E c \in IssuedAtNine(1) : c.status = "rejected"
    /\ Owned(store, 1) = 10

-----------------------------------------------------------------------------
(* Accounts: createUser and the AuthContext calls around it *)

\* AuthContext.register
Register(username, email, password) ==
    /\ ~showForm
    /\ IF GetUserByUsername(Opened, username) # Null
       THEN /\ store' = Opened
            /\ isInitialized' = TRUE
            /\ returned' = [op |-> "register", value |-> FALSE]
            /\ UNCHANGED <<now, result, user, savedUserId>>
       ELSE LET r == CreateUserTx(Opened, username, email, password, now)
            IN  /\ Settle("createUser", r)
                /\ IF r.status = "resolved"
                   THEN /\ user' = GetUserById(r.store, r.store.userSeq)
                        /\ savedUserId' = Str(NumberToString(r.store.userSeq))
                        /\ returned' = [op |-> "register", value |-> TRUE]
                   ELSE /\ returned' = [op |-> "register", value |-> FALSE]
                        /\ UNCHANGED <<user, savedUserId>>
    /\ UNCHANGED <<calls, isLoading, tasks, formVars>>

\* AuthContext.logout
Logout ==
    /\ ~showForm
    /\ user' = Null
    /\ savedUserId' = Null
    /\ UNCHANGED <<storeVars, calls, isLoading, tasks, returned, formVars>>

UserBob == [username |-> Str(<<"b", "o", "b">>), email |-> Str(<<"bob@example.com">>),
            password |-> Str(<<"pw">>)]

UserCat == [username |-> Str(<<"c", "a", "t">>), email |-> Str(<<"cat@example.com">>),
            password |-> Str(<<"pw">>)]

Usernames == {DemoName, UserAmy.username, UserBob.username, UserCat.username}
Emails == {DemoEmail, UserAmy.email, UserBob.email, UserCat.email}
Passwords == {DemoPassword, UserAmy.password}

RegisterPasswords == {UserAmy.password}

\* what is typed at login: the stored texts, and texts that differ from them in case or
\* in a trailing blank
LoginNames == Usernames \cup {Str(<<"D", "e", "m", "o">>)}
LoginPasswords == Passwords \cup {Str(<<"demo123", " ">>)}

NextUsers ==
    \/ \E u \in Usernames, e \in Emails, p \in RegisterPasswords :
          /\ CreateUserTx(Opened, u, e, p, now).store.userSeq <= MaxAccounts
          /\ CreateUser(u, e, p)
    \/ \E u \in Usernames, e \in Emails, p \in RegisterPasswords :
          /\ CreateUserTx(Opened, u, e, p, now).store.userSeq <= MaxAccounts
          /\ Register(u, e, p)
    \/ \E u \in LoginNames, p \in LoginPasswords : Login(u, p)
    \/ Logout

SpecUsers == Init /\ [][NextUsers]_vars

\* a stored user has this username or this email
Taken(st, username, email) == \E x \in st.users : x.username = username \/ x.email = email

\* no two stored users share a username or an email
UniqueUsers(st) ==
    \A x, y \in st.users : x # y => x.username # y.username /\ x.email # y.email

\* C11: createUser with a username or an email that a stored user has is rejected, adds
\* no row, and leaves every stored user as getUserByUsername and getUserById returned it
\* before; and in every state the usernames and the emails of the stored users are
\* pairwise distinct.
C11_DuplicateUserRejected ==
    /\ [](UniqueUsers(store))
    /\ [][\A u \in Usernames, e \in Emails, p \in RegisterPasswords :
             (result'.op = "createUser" /\ Taken(Opened, u, e) /\ CreateUser(u, e, p))
             => /\ result'.status = "rejected"
                /\ store' = Opened
                /\ \A x \in Opened.users :
                      /\ GetUserByUsername(store', x.username) = x
                      /\ GetUserById(store', x.id) = x]_vars

C11_Witness ==
    /\ result.op = "createUser" /\ result.status = "rejected"
    /\ result.error = "ConstraintViolation"
    /\ Cardinality(store.users) = 2

-----------------------------------------------------------------------------
(* Listing: getSchedulesByUserId over rows created at equal and at different instants *)

\* the clock advances between calls
Tick ==
    /\ now < MaxClock
    /\ now' = now + 1
    /\ UNCHANGED <<store, isInitialized, result, calls, authVars, formVars>>

\* every order ORDER BY createdAt DESC allows for the rows: SQL leaves the order of rows
\* with equal createdAt open (SQLite lists them as its scan meets them, by rowid)
Listings(rows) ==
    {list \in [1..Cardinality(rows) -> rows] :
        \A i, j \in 1..Cardinality(rows) :
            i < j => /\ list[i] # list[j]
                     /\ list[i].createdAt.iso >= list[j].createdAt.iso}

\* the arrays getSchedulesByUserId may resolve with
GetSchedulesByUserIdResults(st, userId) ==
    Listings({r \in st.schedules : r.userId = SqlBind(userId)})

ListingInputs == {TimePayload(1), ChargePayload(2, 80)}

ListingUsers == {1, 2}

NextListing ==
    \/ Tick
    \/ \E d \in ListingInputs : Opened.scheduleSeq < MaxListedId /\ CreateSchedule(d)
    \/ \E id \in 1..MaxListedId : DeleteSchedule(id)

SpecListing == Init /\ [][NextListing]_vars

\* C12: whatever array getSchedulesByUserId(u) resolves with holds exactly the schedules
\* whose userId is u, each once, and of any two of them the one inserted later (the one
\* with the higher id) comes first, also when their createdAt are equal.
C12_NewestFirst ==
    \A u \in ListingUsers :
        \A list \in GetSchedulesByUserIdResults(store, Num(u)) :
            /\ {list[i] : i \in DOMAIN list} = {r \in store.schedules : r.userId = Num(u)}
            /\ \A i, j \in DOMAIN list : list[i].id.n > list[j].id.n => i < j

-----------------------------------------------------------------------------
(* Validation: handleSubmit over every combination of entered fields.  The demo user   *)
(* is logged in and the form is open, for a new schedule or for one of the seeded      *)
(* ones; each field holds any of the texts below, those of the types not selected      *)
(* included, as they stay in formData when the type is switched.                       *)

ValidateNames == {<<>>, <<" ">>, <<" ", "N", " ">>}
ValidateDays == {<<>>, <<"Monday">>}
ValidateStartTimes == {<<>>, <<"22:00">>}
ValidateEndTimes == {<<>>, <<"23:00">>}
ValidateReadyByTimes == {<<>>, <<"07:00">>}
ValidateChargeLevels ==
    {<<>>, <<"0">>, <<"1", "0", "0">>, <<"1", "0", "1">>, <<"-", "1">>,
     <<"5", "0", ".", "5">>, <<"a", "b", "c">>}
ValidateMileages ==
    {<<>>, <<"0">>, <<"2", "5", "0">>, <<"2", "5", "1">>, <<"-", "1">>,
     <<"1", "2", "0", "k", "m">>}

ValidateFormData ==
    [name : ValidateNames, type : ScheduleTypes, days : ValidateDays,
     startTime : ValidateStartTimes, endTime : ValidateEndTimes,
     readyByTime : ValidateReadyByTimes, desiredChargeLevel : ValidateChargeLevels,
     desiredMileage : ValidateMileages]

SeededStore == InsertDemoData(EmptyStore, 0)

InitValidate ==
    /\ store = SeededStore
    /\ isInitialized = TRUE
    /\ now = 0
    /\ calls = {}
    /\ user = GetUserByUsername(SeededStore, DemoName)
    /\ savedUserId = Str(NumberToString(user.id))
    /\ isLoading = FALSE
    /\ tasks = {}
    /\ returned = [op |-> "login", value |-> TRUE]
    /\ showForm = TRUE
    /\ editingSchedule \in {Null} \cup SeededStore.schedules
    /\ formData \in ValidateFormData
    /\ submits = 0
    /\ alert = "none"
    /\ result = [op |-> "none", status |-> "none", error |-> "none", tx |-> FALSE,
                 rowsAffected |-> 0]

NextValidate ==
    \/ HandleSubmit
    \/ \E day \in FormDays : HandleDayToggle(day)
    \/ OnCancel

SpecValidate == InitValidate /\ [][NextValidate]_vars

(* Vocabulary of the validation properties *)

NameMessage == "Please enter a schedule name"
DaysMessage == "Please select at least one day"
TimesMessage == "Please enter both start and end times"
ReadyByMessage == "Please enter a ready by time"
ChargeMessage == "Charge level must be between 0 and 100"
MileageMessage == "Mileage must be between 0 and 250"

\* the checks in the order of the specification: 1 name, 2 days, 3 the times the type
\* requires, 4 the numeric range
CheckFails(fd, check) ==
    CASE check = 1 -> \A i \in DOMAIN fd.name : IsSpace(fd.name[i])
      [] check = 2 -> fd.days = <<>>
      [] check = 3 -> IF IsTime(fd) THEN fd.startTime = <<>> \/ fd.endTime = <<>>
                      ELSE fd.readyByTime = <<>>
      [] check = 4 -> \/ IsCharge(fd) /\ OutOfRange(ParseInt(fd.desiredChargeLevel), 100)
                      \/ IsMileage(fd) /\ OutOfRange(ParseInt(fd.desiredMileage), 250)

\* the error of a check
CheckMessage(fd, check) ==
    CASE check = 1 -> NameMessage
      [] check = 2 -> DaysMessage
      [] check = 3 -> IF IsTime(fd) THEN TimesMessage ELSE ReadyByMessage
      [] check = 4 -> IF IsCharge(fd) THEN ChargeMessage ELSE MileageMessage

NameAndDaysValid(fd) == ~CheckFails(fd, 1) /\ ~CheckFails(fd, 2)

\* the step handed a payload to onSubmit
Submitted == submits' = submits + 1

\* the step showed the message and handed nothing to onSubmit
Refused(message) == alert' = message /\ submits' = submits /\ store' = store

\* the text is an optional minus sign followed by digits only
IsIntegerLiteral(text) ==
    LET body == IF text # <<>> /\ Head(text) = "-" THEN Tail(text) ELSE text
    IN  body # <<>> /\ \A i \in DOMAIN body : IsDigit(body[i])

\* the integer an integer literal denotes
LiteralValue(text) ==
    IF Head(text) = "-" THEN 0 - DigitsPrefix(Tail(text), 0) ELSE DigitsPrefix(text, 0)

-----------------------------------------------------------------------------
(* Properties of the validation, checked under SpecValidate *)

\* C13: when a submission violates one or more of the checks name, days, required
\* times, numeric range, the error shown is that of the first violated check in this
\* order, and nothing is handed to onSubmit.
C13_FirstFailureWins ==
    [][\A check \in 1..4 :
          (/\ HandleSubmit
           /\ CheckFails(formData, check)
           /\ \A earlier \in 1..(check - 1) : ~CheckFails(formData, earlier))
          => Refused(CheckMessage(formData, check))]_vars

\* a submission that violated all four checks was answered with the error of the name
C13_Witness ==
    /\ alert = NameMessage
    /\ \A check \in 1..4 : CheckFails(formData, check)

\* C14: with name and days valid, a submission of type time is refused with the error
\* of the times exactly when startTime or endTime is empty and is handed to onSubmit
\* otherwise, whatever readyByTime, desiredChargeLevel and desiredMileage hold; a
\* submission of type charge or mileage with an empty readyByTime is refused with the
\* error of readyByTime, whatever startTime and endTime hold.
C14_RequiredTimes ==
    [][(HandleSubmit /\ NameAndDaysValid(formData))
          => IF IsTime(formData)
             THEN IF formData.startTime = <<>> \/ formData.endTime = <<>>
                  THEN Refused(TimesMessage)
                  ELSE Submitted
             ELSE formData.readyByTime = <<>> => Refused(ReadyByMessage)]_vars

\* a charge or mileage submission with both times of type time entered was refused for
\* its readyByTime
C14_Witness ==
    /\ alert = ReadyByMessage
    /\ formData.startTime # <<>> /\ formData.endTime # <<>>
    /\ NameAndDaysValid(formData)

\* the text does not start with a number: parsing it gives no integer
HasNoNumber(text) ==
    LET body == IF text # <<>> /\ Head(text) = "-" THEN Tail(text) ELSE text
    IN  body = <<>> \/ ~IsDigit(Head(body))

\* C15: with the other fields valid, a submission of type charge whose
\* desiredChargeLevel is an integer is handed to onSubmit if the integer is in 0..100
\* (0 and 100 included) and refused with the error of the charge level otherwise; the
\* same for type mileage, desiredMileage and 0..250; a text without a number is
\* refused; and a submission of type time is handed to onSubmit whatever the two
\* numeric fields hold, as is a charge submission whatever desiredMileage holds and a
\* mileage submission whatever desiredChargeLevel holds.
C15_InclusiveRange ==
    [][(HandleSubmit /\ NameAndDaysValid(formData) /\ ~CheckFails(formData, 3))
          => /\ IsTime(formData) => Submitted
             /\ (IsCharge(formData) /\ IsIntegerLiteral(formData.desiredChargeLevel))
                   => IF LiteralValue(formData.desiredChargeLevel) \in 0..100
                      THEN Submitted ELSE Refused(ChargeMessage)
             /\ (IsCharge(formData) /\ HasNoNumber(formData.desiredChargeLevel))
                   => Refused(ChargeMessage)
             /\ (IsMileage(formData) /\ IsIntegerLiteral(formData.desiredMileage))
                   => IF LiteralValue(formData.desiredMileage) \in 0..250
                      THEN Submitted ELSE Refused(MileageMessage)
             /\ (IsMileage(formData) /\ HasNoNumber(formData.desiredMileage))
                   => Refused(MileageMessage)]_vars

\* a charge level of 100 was accepted and stored
C15_Witness ==
    /\ result.op \in {"createSchedule", "updateSchedule"} /\ result.status = "resolved"
    /\ submits = 1
    /\ \E r \in store.schedules :
          r.name = Str(<<"N">>) /\ r.type = Str(<<"charge">>) /\ r.desiredChargeLevel = Num(100)
          /\ r.readyByTime = Str(<<"07:00">>)

\* C16: with the other fields valid, a submission of type charge or mileage whose
\* numeric target is not an integer literal (fractional, non-numeric, or a number with
\* characters after it) is refused with the range error and nothing is handed to
\* onSubmit.
C16_NonIntegerRefused ==
    [][(HandleSubmit /\ NameAndDaysValid(formData) /\ ~CheckFails(formData, 3))
          => /\ (IsCharge(formData) /\ ~IsIntegerLiteral(formData.desiredChargeLevel))
                   => Refused(ChargeMessage)
             /\ (IsMileage(formData) /\ ~IsIntegerLiteral(formData.desiredMileage))
                   => Refused(MileageMessage)]_vars

\* name is the entered text without the white space at its ends, and is not empty
TrimmedOf(name, entered) ==
    /\ name # <<>> /\ ~IsSpace(Head(name)) /\ ~IsSpace(name[Len(name)])
    /\ \E i, j \in 0..Len(entered) :
          /\ i + Len(name) + j = Len(entered)
          /\ SubSeq(entered, i + 1, i + Len(name)) = name
          /\ \A k \in 1..i : IsSpace(entered[k])
          /\ \A k \in (Len(entered) - j + 1)..Len(entered) : IsSpace(entered[k])

\* payload p is the normal form of the entered fields fd
Normalized(p, fd) ==
    /\ p.name.t = "string" /\ TrimmedOf(p.name.s, fd.name)
    /\ p.type = fd.type
    /\ \A k \in TypeFields \ ApplicableFields(fd.type) : p[k] = Undefined
    /\ \A k \in ApplicableFields(fd.type) \cap {"startTime", "endTime", "readyByTime"} :
          p[k] = Str(fd[k])
    /\ \A k \in ApplicableFields(fd.type) \cap {"desiredChargeLevel", "desiredMileage"} :
          IsIntegerLiteral(fd[k]) => p[k] = Num(LiteralValue(fd[k]))

\* C17: the payload of every submission handed to onSubmit has the entered name
\* without the white space around it, not empty; the entered values in the fields of
\* the selected type (the integer entered, for a numeric field); and undefined in every
\* field of another type, whatever formData holds for it.
C17_PayloadNormalized ==
    [][(HandleSubmit /\ Submitted)
          => /\ Normalized(ScheduleData(formData), formData)
             /\ HandleFormSubmit(ScheduleData(formData))]_vars

\* a time schedule was created from a form that held texts of the other types
C17_Witness ==
    /\ result.op = "createSchedule" /\ result.status = "resolved" /\ submits = 1
    /\ \E r \in store.schedules :
          /\ r.id = Num(3) /\ r.name = Str(<<"N">>) /\ r.type = Str(<<"time">>)
          /\ r.startTime = Str(<<"22:00">>) /\ r.endTime = Str(<<"23:00">>)
          /\ r.readyByTime = Null /\ r.desiredChargeLevel = Null /\ r.desiredMileage = Null

\* C18: a submission that fails a check hands nothing to onSubmit, issues no store
\* call and leaves the store as it was.
C18_InvalidNeverStored ==
    [][(HandleSubmit /\ \E check \in 1..4 : CheckFails(formData, check))
          => /\ submits' = submits
             /\ store' = store /\ isInitialized' = isInitialized
             /\ result' = result /\ calls' = calls]_vars

\* an edit was refused and no store call has been made
C18_Witness ==
    /\ alert = DaysMessage
    /\ editingSchedule # Null
    /\ result.op = "none" /\ submits = 0
    /\ store = SeededStore

-----------------------------------------------------------------------------
(* Days: the screen as its user drives it, creating, editing and deleting schedules *)

\* handleDeleteSchedule, once its confirmation is pressed
HandleDeleteSchedule(schedule) ==
    /\ user # Null /\ ~showForm
    /\ Settle("deleteSchedule", DeleteScheduleTx(Opened, schedule.id.n))
    /\ UNCHANGED <<calls, authVars, formVars>>

DaysTexts ==
    [name |-> {<<"N">>},
     startTime |-> {<<"22:00">>},
     endTime |-> {<<"23:00">>}]

NextDays ==
    \/ Login(DemoName, DemoPassword)
    \/ HandleAddSchedule
    \/ \E i \in DOMAIN ScreenSchedules : HandleEditSchedule(ScreenSchedules[i])
    \/ \E i \in DOMAIN ScreenSchedules : HandleDeleteSchedule(ScreenSchedules[i])
    \/ \E field \in DOMAIN DaysTexts : \E text \in DaysTexts[field] : SetFormField(field, text)
    \/ \E day \in FormDays : HandleDayToggle(day)
    \/ OnCancel
    \/ HandleSubmit

SpecDays == Init /\ [][NextDays]_vars

-----------------------------------------------------------------------------
(* The storage boundary: store calls that carry targets inside and outside their ranges *)

BoundaryCreateInputs ==
    {ChargePayload(1, 100), ChargePayload(1, 101), ChargePayload(1, -1),
     MileagePayload(1, 250), MileagePayload(1, 251)}

BoundaryUpdateInputs ==
    {Payload([desiredChargeLevel |-> Num(50)]),
     Payload([desiredChargeLevel |-> Num(150)]),
     Payload([desiredMileage |-> Num(-5)])}

NextBoundary ==
    \/ \E d \in BoundaryCreateInputs : Opened.scheduleSeq < MaxScheduleId /\ CreateSchedule(d)
    \/ \E id \in ScheduleIds, f \in BoundaryUpdateInputs : UpdateSchedule(id, f)
    \/ \E id \in ScheduleIds : DeleteSchedule(id)

SpecBoundary == Init /\ [][NextBoundary]_vars

\* C20: every stored schedule that has a desiredChargeLevel has it in 0..100 and every
\* stored schedule that has a desiredMileage has it in 0..250, whatever values the
\* createSchedule and updateSchedule calls carried.
C20_RangesEnforced ==
    \A r \in store.schedules :
        /\ r.desiredChargeLevel # Null => r.desiredChargeLevel.n \in 0..100
        /\ r.desiredMileage # Null => r.desiredMileage.n \in 0..250

-----------------------------------------------------------------------------
(* Ownership, checked under SpecQuota *)

\* C21: every stored schedule has the id of a stored user in userId, whatever userId
\* the createSchedule and updateSchedule calls carried.
C21_OwnerExists ==
    \A r \in store.schedules : \E u \in store.users : r.userId = Num(u.id)

-----------------------------------------------------------------------------
(* Accounts, checked under SpecUsers *)

\* C22: login(username, password) returns true exactly when a stored user has this
\* username and this password, character for character; and when it returns true the
\* current user is that user and the saved session id is the text of that user's id.
C22_LoginReturn ==
    [][\A u \in LoginNames, p \in LoginPasswords :
          (returned'.op = "login" /\ Login(u, p))
          => LET match == {x \in Opened.users : x.username = u /\ x.password = p}
             IN  /\ returned'.value <=> match # {}
                 /\ returned'.value
                       => /\ user' \in match
                          /\ savedUserId' = Str(NumberToString(user'.id))]_vars

\* a registered user has logged in
C22_Witness ==
    /\ returned = [op |-> "login", value |-> TRUE]
    /\ user # Null /\ user.username = UserAmy.username
    /\ savedUserId = Str(NumberToString(user.id))

-----------------------------------------------------------------------------
(* Every call of the store and of AuthContext, for the user rows they must leave alone *)

FrameUsernames == {DemoName, UserAmy.username}
FrameEmails == {DemoEmail, UserAmy.email}
FrameUpdateInputs == {Payload([userId |-> Num(2)]), Payload([name |-> NameTrip])}

NextFrame ==
    \/ Initialize
    \/ \E u \in FrameUsernames, e \in FrameEmails :
          /\ CreateUserTx(Opened, u, e, UserAmy.password, now).store.userSeq <= MaxUserId
          /\ CreateUser(u, e, UserAmy.password)
    \/ \E u \in FrameUsernames, e \in FrameEmails :
          /\ CreateUserTx(Opened, u, e, UserAmy.password, now).store.userSeq <= MaxUserId
          /\ Register(u, e, UserAmy.password)
    \/ \E u \in FrameUsernames, p \in Passwords : Login(u, p)
    \/ Logout
    \/ Opened.scheduleSeq < MaxScheduleId /\ CreateSchedule(TimePayload(1))
    \/ \E id \in ScheduleIds, f \in FrameUpdateInputs : UpdateSchedule(id, f)
    \/ \E id \in ScheduleIds : DeleteSchedule(id)

SpecFrame == Init /\ [][NextFrame]_vars

\* C23: every user row that is stored stays stored, with every field as it was,
\* through every createUser, createSchedule, updateSchedule, deleteSchedule, login,
\* register, logout and initialize call.
C23_UsersImmutable ==
    [][\A x \in store.users : x \in store'.users]_vars

\* a user was registered, and schedules were since updated and deleted
C23_Witness ==
    /\ Cardinality(store.users) = 2
    /\ result.op = "deleteSchedule" /\ result.rowsAffected = 1
    /\ \E r \in store.schedules : r.userId = Num(2)

-----------------------------------------------------------------------------
(* The day buttons of the form, pressed in every order *)

MaxToggles == 4

ToggleDays == {"Monday", "Tuesday", "Saturday", "Sunday"}

NextToggle ==
    \/ Login(DemoName, DemoPassword)
    \/ HandleAddSchedule
    \/ \E i \in DOMAIN ScreenSchedules : HandleEditSchedule(ScreenSchedules[i])
    \/ \E day \in ToggleDays : HandleDayToggle(day)
    \/ OnCancel

SpecToggle == Init /\ [][NextToggle]_vars

\* the presses that may follow: every sequence of at most MaxToggles day buttons
ToggleSeqs == UNION {[1..n -> ToggleDays] : n \in 0..MaxToggles}

\* the list after the presses ts, one handleDayToggle call each
RECURSIVE ToggledAll(_, _)
ToggledAll(days, ts) ==
    IF ts = <<>> THEN days ELSE ToggledAll(ToggledDays(days, Head(ts)), Tail(ts))

ToggleCount(ts, day) == Cardinality({i \in DOMAIN ts : ts[i] = day})

DaySet(days) == {days[i] : i \in DOMAIN days}

NoDuplicates(days) == \A i, j \in DOMAIN days : days[i] = days[j] => i = j

\* when a day of the final list was last switched on: the presses count from 1, the
\* days selected at the start and never pressed come before them in their start order
LastToggleOn(start, ts, day) ==
    IF ToggleCount(ts, day) > 0
    THEN CHOOSE i \in DOMAIN ts : ts[i] = day /\ \A j \in DOMAIN ts : ts[j] = day => j <= i
    ELSE (CHOOSE i \in DOMAIN start : start[i] = day) - Len(start) - 1

\* C24: from a days list without duplicates, after any sequence of handleDayToggle
\* calls the list has no duplicates, holds exactly the days pressed an odd number of
\* times relative to the start, in the order in which each was last switched on, and
\* pressing an unselected day twice gives the same list back.
C24_ToggleOrder ==
    showForm =>
        \A ts \in ToggleSeqs :
            LET start == formData.days
                days == ToggledAll(start, ts)
            IN  /\ NoDuplicates(start)
                /\ NoDuplicates(days)
                /\ DaySet(days)
                     = {d \in DaySet(start) \cup ToggleDays :
                          (d \in DaySet(start)) # (ToggleCount(ts, d) % 2 = 1)}
                /\ \A i, j \in DOMAIN days :
                      i < j => LastToggleOn(start, ts, days[i]) < LastToggleOn(start, ts, days[j])
                /\ \A d \in ToggleDays \ DaySet(days) :
                      ToggledDays(ToggledDays(days, d), d) = days

\* in the form of the weekend schedule, Tuesday was switched on before Monday
C24_Witness ==
    /\ showForm /\ editingSchedule # Null
    /\ formData.days = <<"Sat", "Sun", "Tuesday", "Monday">>

-----------------------------------------------------------------------------
(* AuthContext step by step: a call of initApp, login, register or logout is a task  *)
(* that waits at each await; a step is the settling of the awaited call, resolved or *)
(* rejected, and the code that runs up to the next await                             *)

\* a call that has just started, with what it finds at its start
Task(k, op, pc, username, email, password) ==
    [k |-> k, op |-> op, pc |-> pc, username |-> username, email |-> email,
     password |-> password, local |-> Null, err |-> "none", ret |-> Undefined,
     before |-> [user |-> user, savedUserId |-> savedUserId, users |-> store.users]]

InFlight == {t \in tasks : t.pc # "done"}

\* no login, register, logout or startup rehydration in flight
Quiescent == InFlight = {}

\* the state a step of task t starts from
Same(t) ==
    [task |-> t, store |-> store, isInitialized |-> isInitialized, user |-> user,
     savedUserId |-> savedUserId, isLoading |-> isLoading, returned |-> returned]

Advance(t, pc) == [t EXCEPT !.pc = pc]

\* `return value` of login and register
Return(s, value) ==
    [s EXCEPT !.task = [s.task EXCEPT !.pc = "done", !.ret = Bool(value)],
              !.returned = [op |-> s.task.op, value |-> value]]

\* the end of initApp and of logout
Finish(s) == [s EXCEPT !.task = [s.task EXCEPT !.pc = "done"]]

\* every DatabaseService method awaits initialize() first
WithOpened(s) == [s EXCEPT !.store = Opened, !.isInitialized = TRUE]

\* seeded fault: setIsLoading(false) sits at the end of the catch block, not in finally
CatchAfterNoFinally(t, ok) ==
    IF ok
    THEN Finish([Same(t) EXCEPT !.savedUserId = Null, !.isLoading = FALSE])
    ELSE Finish([Same(t) EXCEPT !.task = [t EXCEPT !.err = "unhandled"]])

\* initApp in its catch block: removeItem has settled, finally runs
CatchAfter(t, ok) ==
    IF ok
    THEN Finish([Same(t) EXCEPT !.savedUserId = Null, !.isLoading = FALSE])
    ELSE Finish([Same(t) EXCEPT !.isLoading = FALSE, !.task = [t EXCEPT !.err = "unhandled"]])

\* the catch block of initApp is entered
Caught(t) == [Same(t) EXCEPT !.task = [t EXCEPT !.pc = "catch", !.err = "caught"]]

InitAppAfter(t, ok) ==
    CASE t.pc = "initialize" ->
            IF ok THEN [WithOpened(Same(t)) EXCEPT !.task = Advance(t, "getItem")]
            ELSE Caught(t)
      [] t.pc = "getItem" ->
            IF ~ok THEN Caught(t)
            ELSE IF Truthy(savedUserId)
            THEN [Same(t) EXCEPT !.task = [Advance(t, "getUserById") EXCEPT !.local = savedUserId]]
            ELSE Finish([Same(t) EXCEPT !.isLoading = FALSE])
      [] t.pc = "getUserById" ->
            IF ~ok THEN Caught(t)
            ELSE LET savedUser == GetUserById(Opened, ParseInt(t.local.s).n)
                 IN  IF savedUser # Null
                     THEN Finish([WithOpened(Same(t)) EXCEPT !.user = savedUser,
                                                             !.isLoading = FALSE])
                     ELSE [WithOpened(Same(t)) EXCEPT !.task = Advance(t, "removeItem")]
      [] t.pc = "removeItem" ->
            IF ok THEN Finish([Same(t) EXCEPT !.savedUserId = Null, !.isLoading = FALSE])
            ELSE Caught(t)
      [] t.pc = "catch" -> CatchAfter(t, ok)

\* setUser has run; setItem has settled
SetItemAfter(t, ok) ==
    IF ok
    THEN Return([Same(t) EXCEPT !.savedUserId = Str(NumberToString(t.local.id))], TRUE)
    ELSE Return(Same(t), FALSE)

LoginAfter(t, ok) ==
    CASE t.pc = "getUserByUsername" ->
            IF ~ok THEN Return(Same(t), FALSE)
            ELSE LET foundUser == GetUserByUsername(Opened, t.username)
                 IN  IF foundUser # Null /\ foundUser.password = t.password
                     THEN [WithOpened(Same(t)) EXCEPT
                              !.user = foundUser,
                              !.task = [Advance(t, "setItem") EXCEPT !.local = foundUser]]
                     ELSE Return(WithOpened(Same(t)), FALSE)
      [] t.pc = "setItem" -> SetItemAfter(t, ok)

RegisterAfter(t, ok) ==
    CASE t.pc = "getUserByUsername" ->
            IF ~ok THEN Return(Same(t), FALSE)
            ELSE IF GetUserByUsername(Opened, t.username) # Null
            THEN Return(WithOpened(Same(t)), FALSE)
            ELSE [WithOpened(Same(t)) EXCEPT !.task = Advance(t, "createUser")]
      [] t.pc = "createUser" ->
            LET r == CreateUserTx(Opened, t.username, t.email, t.password, now)
                newUser == GetUserById(r.store, r.store.userSeq)
            IN  IF ok /\ r.status = "resolved"
                THEN [Same(t) EXCEPT
                         !.store = r.store, !.isInitialized = TRUE, !.user = newUser,
                         !.task = [Advance(t, "setItem") EXCEPT !.local = newUser]]
                ELSE Return(Same(t), FALSE)
      [] t.pc = "setItem" -> SetItemAfter(t, ok)

LogoutAfter(t, ok) ==
    IF ok THEN Finish([Same(t) EXCEPT !.savedUserId = Null]) ELSE Finish(Same(t))

\* DatabaseService.initialize past its isInitialized test: createTables has settled, or
\* the transaction of insertDemoData has run and the flag is set
InitializeAfter(t, ok) ==
    CASE ~ok -> Finish([Same(t) EXCEPT !.task = [t EXCEPT !.err = "rejected"]])
      [] ok /\ t.pc = "createTables" -> [Same(t) EXCEPT !.task = Advance(t, "insertDemoData")]
      [] ok /\ t.pc = "insertDemoData" ->
            Finish([Same(t) EXCEPT !.store = InsertDemoData(store, now),
                                   !.isInitialized = TRUE])

After(t, ok) ==
    CASE t.op = "initialize" -> InitializeAfter(t, ok)
      [] t.op = "initApp" -> InitAppAfter(t, ok)
      [] t.op = "login" -> LoginAfter(t, ok)
      [] t.op = "register" -> RegisterAfter(t, ok)
      [] t.op = "logout" -> LogoutAfter(t, ok)

\* the awaited call of task t settles, resolved (ok) or rejected
TaskStep(t, ok) ==
    /\ t \in InFlight
    /\ LET s == After(t, ok)
       IN  /\ tasks' = (tasks \ {t}) \cup {s.task}
           /\ store' = s.store
           /\ isInitialized' = s.isInitialized
           /\ user' = s.user
           /\ savedUserId' = s.savedUserId
           /\ isLoading' = s.isLoading
           /\ returned' = s.returned
    /\ UNCHANGED <<now, result, calls, formVars>>

\* a call starts in slot k; the tasks that have ended are forgotten
StartLogin(k, username, password) ==
    /\ ~isLoading /\ \A t \in InFlight : t.k # k
    /\ tasks' = InFlight \cup {Task(k, "login", "getUserByUsername", username, Null, password)}
    /\ UNCHANGED <<storeVars, calls, user, savedUserId, isLoading, returned, formVars>>

StartRegister(k, username, email, password) ==
    /\ ~isLoading /\ \A t \in InFlight : t.k # k
    /\ tasks' = InFlight
                  \cup {Task(k, "register", "getUserByUsername", username, email, password)}
    /\ UNCHANGED <<storeVars, calls, user, savedUserId, isLoading, returned, formVars>>

StartLogout(k) ==
    /\ ~isLoading /\ \A t \in InFlight : t.k # k
    /\ user' = Null
    /\ tasks' = InFlight \cup {Task(k, "logout", "removeItem", Null, Null, Null)}
    /\ UNCHANGED <<storeVars, calls, savedUserId, isLoading, returned, formVars>>

\* the app is closed and opened again: the database file and AsyncStorage stay, the
\* state of AuthProvider and of DatabaseService starts anew, and the effect runs initApp
Relaunch ==
    /\ now < MaxClock
    /\ now' = now + 1
    /\ user' = Null
    /\ isLoading' = TRUE
    /\ isInitialized' = FALSE
    /\ tasks' = {[Task(1, "initApp", "initialize", Null, Null, Null)
                    EXCEPT !.before.user = Null]}
    /\ returned' = [op |-> "none", value |-> FALSE]
    /\ UNCHANGED <<store, savedUserId, result, calls, formVars>>

\* the first launch
InitLaunch ==
    /\ store = EmptyStore
    /\ isInitialized = FALSE
    /\ now = 0
    /\ result = [op |-> "none", status |-> "none", error |-> "none", tx |-> FALSE,
                 rowsAffected |-> 0]
    /\ calls = {}
    /\ user = Null
    /\ savedUserId = Null
    /\ isLoading = TRUE
    /\ tasks = {[k |-> 1, op |-> "initApp", pc |-> "initialize", username |-> Null,
                 email |-> Null, password |-> Null, local |-> Null, err |-> "none",
                 ret |-> Undefined,
                 before |-> [user |-> Null, savedUserId |-> Null, users |-> {}]]}
    /\ returned = [op |-> "none", value |-> FALSE]
    /\ showForm = FALSE
    /\ editingSchedule = Null
    /\ formData = InitialFormData
    /\ submits = 0
    /\ alert = "none"

(* One call at a time, each awaited call free to fail *)

SessionLogins ==
    {[username |-> DemoName, password |-> DemoPassword],
     [username |-> DemoName, password |-> UserAmy.password],
     [username |-> UserAmy.username, password |-> UserAmy.password]}

SessionRegisters ==
    {UserAmy, [username |-> DemoName, email |-> UserAmy.email, password |-> UserAmy.password]}

NextSession ==
    \/ \E t \in tasks, ok \in BOOLEAN : TaskStep(t, ok)
    \/ \E c \in SessionLogins : Quiescent /\ StartLogin(1, c.username, c.password)
    \/ \E c \in SessionRegisters :
          Quiescent /\ StartRegister(1, c.username, c.email, c.password)
    \/ Quiescent /\ StartLogout(1)
    \/ Relaunch

\* a call that is awaited settles in the end
SpecSession ==
    InitLaunch /\ [][NextSession]_vars /\ WF_vars(\E t \in tasks, ok \in BOOLEAN : TaskStep(t, ok))

\* the startup rehydrations that have completed
Rehydrated == {t \in tasks : t.op = "initApp" /\ t.pc = "done"}

\* the stored user whose id is the session id saved when initApp started
SavedUser(t) ==
    IF t.before.savedUserId = Null THEN Null
    ELSE GetUserById(store, ParseInt(t.before.savedUserId.s).n)

\* the outcome of a rehydration in which nothing failed
RehydratedAsSaved(t) ==
    IF SavedUser(t) # Null THEN user = SavedUser(t)
    ELSE user = Null /\ savedUserId = Null

\* C25: session rehydration at startup always ends with isLoading = false, whether
\* initialize, the session read, getUserById or the removal of the session key succeeds
\* or fails; on completion the current user is the stored user with the saved session
\* id if there is one, and otherwise the current user is null and the saved id removed.
C25_Rehydration ==
    /\ isLoading ~> ~isLoading
    /\ [](\A t \in Rehydrated : ~isLoading /\ RehydratedAsSaved(t))

\* C25, amended: rehydration always ends with isLoading = false. When every call
\* succeeded the outcome is the one above. When initialize, the session read or
\* getUserById failed the current user is null, and the saved session id has been
\* removed unless the removal failed too, in which case it is still the saved one.
C25_RehydrationAmended ==
    /\ isLoading ~> ~isLoading
    /\ [](\A t \in Rehydrated :
             /\ ~isLoading
             /\ t.err = "none" => RehydratedAsSaved(t)
             /\ t.err # "none" => user = Null
             /\ t.err = "caught" => savedUserId = Null
             /\ t.err = "unhandled" => savedUserId = t.before.savedUserId)

\* a rehydration ended after a call failed: the saved user is stored, but nobody is
\* logged in and the session id is gone
C25_Witness ==
    \E t \in Rehydrated :
        /\ t.err = "caught" /\ SavedUser(t) # Null
        /\ ~isLoading /\ user = Null /\ savedUserId = Null

\* the demo row, which any call that opens the database may add
IsDemoUser(u) == u.username = DemoName /\ u.email = DemoEmail /\ u.password = DemoPassword

\* C26: whenever login or register returns false, also when a storage or session call
\* fails part-way, the current user and the persisted session id are what they were
\* before the call, and register has added no user row (the demo row that opening the
\* database seeds is not counted as added by register).
C26_FalseChangesNothing ==
    [][\A t \in tasks' :
          (t \notin tasks /\ t.pc = "done" /\ t.op \in {"login", "register"}
             /\ t.ret = Bool(FALSE))
          => /\ user' = t.before.user
             /\ savedUserId' = t.before.savedUserId
             /\ t.op = "register"
                   => \A u \in store'.users : u \in t.before.users \/ IsDemoUser(u)]_vars

\* C28: in every quiescent state the persisted session id is present iff the current
\* user is not null, and then it is the current user's id; after logout has completed
\* the id is absent, so the next startup does not restore the user.
C28_SessionConsistent ==
    Quiescent =>
        /\ savedUserId # Null <=> user # Null
        /\ user # Null => savedUserId = Str(NumberToString(user.id))

-----------------------------------------------------------------------------
(* Register calls alone or two at a time, every awaited call succeeding: a call starts *)
(* when no call is in flight, or as the second of a pair while the first is in flight *)

RaceRegisters ==
    {[username |-> u, email |-> e, password |-> UserAmy.password] :
        u \in {DemoName, UserAmy.username}, e \in {DemoEmail, UserAmy.email, UserBob.email}}
      \cup {UserBob}

NextRegister ==
    \/ \E t \in tasks : TaskStep(t, TRUE)
    \/ \E k \in {1, 2}, c \in RaceRegisters :
          /\ Quiescent \/ tasks = InFlight
          /\ StartRegister(k, c.username, c.email, c.password)

SpecRegister == InitLaunch /\ [][NextRegister]_vars

\* two register calls that overlapped and have both returned, for the same username
\* and different emails
Raced(a, b) ==
    /\ a \in tasks /\ b \in tasks /\ a # b
    /\ a.op = "register" /\ b.op = "register"
    /\ a.pc = "done" /\ b.pc = "done"
    /\ a.username = b.username /\ a.email # b.email

Named(username) == {u \in store.users : u.username = username}

\* when the first of the two calls started no user had the username, and no user had
\* the email of at least one of them
Winnable(a, b) ==
    \E t \in {a, b} :
        /\ \A u \in t.before.users : u.username # a.username
        /\ \E c \in {a, b} : \A u \in t.before.users : u.email # c.email

-----------------------------------------------------------------------------
(* DatabaseService.initialize called again and again: in sequence, while earlier calls *)
(* are in flight, and after close()                                                    *)

\* initialize() finds isInitialized false, opens the database and awaits createTables
StartInitialize(k) ==
    /\ ~isInitialized /\ \A t \in InFlight : t.k # k
    /\ tasks' = InFlight \cup {Task(k, "initialize", "createTables", Null, Null, Null)}
    /\ UNCHANGED <<storeVars, calls, user, savedUserId, isLoading, returned, formVars>>

\* close()
Close ==
    /\ isInitialized' = FALSE
    /\ UNCHANGED <<store, now, result, calls, authVars, formVars>>

NextInit ==
    \/ Initialize
    \/ \E k \in 1..MaxInFlight : StartInitialize(k)
    \/ \E t \in tasks, ok \in BOOLEAN : t.op = "initialize" /\ TaskStep(t, ok)
    \/ Close
    \/ \E id \in 1..2 : DeleteSchedule(id)
    \/ Tick

SpecInit == Init /\ [][NextInit]_vars

\* the initialize calls that have resolved
Initialized == {t \in tasks : t.op = "initialize" /\ t.pc = "done" /\ t.err = "none"}

\* C29: after any number of initialize calls, in sequence, started before the first
\* completes, or following close(), there is exactly one user named demo, the two demo
\* schedules have been inserted at most once, and demo schedules that were deleted are
\* not inserted again.
C29_SeededOnce ==
    /\ [](Cardinality(Named(DemoName)) <= 1)
    /\ []((isInitialized \/ Initialized # {}) => Cardinality(Named(DemoName)) = 1)
    /\ [](store.scheduleSeq \in {0, 2})
    /\ [][\A r \in store'.schedules \ store.schedules :
            Named(DemoName) = {} /\ store.scheduleSeq = 0]_vars

\* two initialize calls overlapped and resolved, the database was closed and
\* initialized again at a later time, and the deleted demo schedule has stayed deleted
C29_Witness ==
    /\ Cardinality(Initialized) = 2
    /\ isInitialized /\ now > 0
    /\ Cardinality(store.schedules) = 1
    /\ Cardinality(Named(DemoName)) = 1

=============================================================================
